---- MODULE Spec2Model ----
(***************************************************************************)
(* The settings store of MQTT433gateway (Settings.cpp) and its JSON        *)
(* documents: deserialize / serialize / load / save / reset, the listener  *)
(* registry and the per-category change detection.                         *)
(*                                                                         *)
(* A JSON text is a sequence of tokens [k, s, n]; k names the token kind   *)
(* ("{", "}", "[", "]", ":", ",", "str", "num", "true", "false", "ws"),    *)
(* s carries the characters of a string token and n the value of a number  *)
(* token.  A parsed JSON value is a record [k, s, n, a]; a holds the       *)
(* elements of an array.  A parsed object is a sequence of [key, val].     *)
(***************************************************************************)
EXTENDS Integers, Sequences, FiniteSets, TLC

VARIABLES settings, listeners, file, universe, lastOp, sequel, pre, before, changed,
          calls, out, reentry, led

vars ==
  <<settings, listeners, file, universe, lastOp, sequel, pre, before, changed, calls, out,
    reentry, led>>

(***************************************************************************)
(* Bounds of the exploration.                                              *)
(***************************************************************************)
MaxListeners == 2

\* the depth of nested deserialize calls at which a run is given up
MaxDepth == 3

\* the number of calls made on an LED in a run
MaxCalls == 3

(***************************************************************************)
(* JSON values and tokens.                                                 *)
(***************************************************************************)
Tok(k) == [k |-> k, s |-> "", n |-> 0]
StrTok(s) == [k |-> "str", s |-> s, n |-> 0]
NumTok(n) == [k |-> "num", s |-> "", n |-> n]

JStr(s) == [k |-> "str", s |-> s, n |-> 0, a |-> <<>>]
JNum(n) == [k |-> "num", s |-> "", n |-> n, a |-> <<>>]
JBool(b) == [k |-> IF b THEN "true" ELSE "false", s |-> "", n |-> 0, a |-> <<>>]
JArr(a) == [k |-> "arr", s |-> "", n |-> 0, a |-> a]

IsScalarTok(t) == t.k \in {"str", "num", "true", "false"}
ScalarOf(t) == [k |-> t.k, s |-> t.s, n |-> t.n, a |-> <<>>]

RECURSIVE PrintElems(_, _)
PrintElems(a, i) ==
  IF i > Len(a) THEN <<>>
  ELSE (IF i > 1 THEN <<Tok(",")>> ELSE <<>>)
       \o <<[k |-> a[i].k, s |-> a[i].s, n |-> a[i].n]>>
       \o PrintElems(a, i + 1)

\* JsonVariant::printTo : the compact text of a value
PrintValue(v) ==
  IF v.k = "arr" THEN <<Tok("[")>> \o PrintElems(v.a, 1) \o <<Tok("]")>>
  ELSE <<[k |-> v.k, s |-> v.s, n |-> v.n]>>

RECURSIVE PrintMembers(_, _)
PrintMembers(obj, i) ==
  IF i > Len(obj) THEN <<>>
  ELSE (IF i > 1 THEN <<Tok(",")>> ELSE <<>>)
       \o <<StrTok(obj[i].key), Tok(":")>> \o PrintValue(obj[i].val)
       \o PrintMembers(obj, i + 1)

\* JsonObject::printTo : the compact text of an object
PrintTo(obj) == <<Tok("{")>> \o PrintMembers(obj, 1) \o <<Tok("}")>>

RECURSIVE Indent(_, _)
Indent(t, i) ==
  IF i > Len(t) THEN <<>>
  ELSE (IF t[i].k \in {"}", "]"} THEN <<Tok("ws")>> ELSE <<>>)
       \o <<t[i]>>
       \o (IF t[i].k \in {"{", "[", ",", ":"} THEN <<Tok("ws")>> ELSE <<>>)
       \o Indent(t, i + 1)

\* JsonObject::prettyPrintTo : the same tokens, with white space between them
PrettyPrintTo(obj) == Indent(PrintTo(obj), 1)

SkipWs(t) == SelectSeq(t, LAMBDA x : x.k # "ws")

NoParse == [ok |-> FALSE, val |-> JArr(<<>>), next |-> 0]

RECURSIVE ParseElems(_, _, _)
ParseElems(t, i, acc) ==
  IF i + 1 > Len(t) \/ ~IsScalarTok(t[i]) THEN NoParse
  ELSE IF t[i + 1].k = "]"
         THEN [ok |-> TRUE, val |-> JArr(Append(acc, ScalarOf(t[i]))), next |-> i + 2]
       ELSE IF t[i + 1].k = ","
         THEN ParseElems(t, i + 2, Append(acc, ScalarOf(t[i])))
       ELSE NoParse

\* the parser on one value starting at token i: a scalar, or an array of scalars
ParseValue(t, i) ==
  IF i > Len(t) THEN NoParse
  ELSE IF IsScalarTok(t[i]) THEN [ok |-> TRUE, val |-> ScalarOf(t[i]), next |-> i + 1]
  ELSE IF t[i].k = "["
    THEN IF i + 1 <= Len(t) /\ t[i + 1].k = "]"
           THEN [ok |-> TRUE, val |-> JArr(<<>>), next |-> i + 2]
           ELSE ParseElems(t, i + 1, <<>>)
  ELSE NoParse

RECURSIVE ParseMembers(_, _, _)
ParseMembers(t, i, acc) ==
  IF i + 1 > Len(t) \/ t[i].k # "str" \/ t[i + 1].k # ":" THEN [success |-> FALSE, obj |-> <<>>]
  ELSE LET v == ParseValue(t, i + 2)
           got == Append(acc, [key |-> t[i].s, val |-> v.val])
       IN IF ~v.ok \/ v.next > Len(t) THEN [success |-> FALSE, obj |-> <<>>]
          ELSE IF t[v.next].k = "}" THEN [success |-> TRUE, obj |-> got]
          ELSE IF t[v.next].k = "," THEN ParseMembers(t, v.next + 1, got)
          ELSE [success |-> FALSE, obj |-> <<>>]

RECURSIVE ParseMembersLenient(_, _, _)
ParseMembersLenient(t, i, acc) ==
  IF i + 1 > Len(t) \/ t[i].k # "str" \/ t[i + 1].k # ":" THEN [success |-> TRUE, obj |-> acc]
  ELSE LET v == ParseValue(t, i + 2)
           got == Append(acc, [key |-> t[i].s, val |-> v.val])
       IN IF ~v.ok THEN [success |-> TRUE, obj |-> acc]
          ELSE IF v.next > Len(t) \/ t[v.next].k # "," THEN [success |-> TRUE, obj |-> got]
          ELSE ParseMembersLenient(t, v.next + 1, got)

\* a parser that reports success on a text cut short, with the members read
ParseObjectLenient(json) ==
  LET t == SkipWs(json)
  IN IF Len(t) < 1 \/ t[1].k # "{" THEN [success |-> FALSE, obj |-> <<>>]
     ELSE ParseMembersLenient(t, 2, <<>>)

\* JsonBuffer::parseObject : success() is false on any text that is no object
ParseObject(json) ==
  LET t == SkipWs(json)
  IN IF Len(t) < 2 \/ t[1].k # "{" THEN [success |-> FALSE, obj |-> <<>>]
     ELSE IF t[2].k = "}" THEN [success |-> TRUE, obj |-> <<>>]
     ELSE ParseMembers(t, 2, <<>>)

\* JsonBuffer::parseArray : an invalid (empty) array on any text that is no array
ParseArray(json) ==
  LET t == SkipWs(json)
      v == ParseValue(t, 1)
  IN IF v.ok /\ v.val.k = "arr" THEN v.val.a ELSE <<>>

\* JsonObject::containsKey
ContainsKey(obj, key) == \E i \in 1..Len(obj) : obj[i].key = key

\* JsonObject::operator[] : the value of the first member named key
Member(obj, key) ==
  obj[CHOOSE i \in 1..Len(obj) :
        obj[i].key = key /\ \A j \in 1..(i - 1) : obj[j].key # key].val

\* JsonVariant::as<String> : the characters of a string, the text of a scalar
AsString(v) ==
  IF v.k = "str" THEN v.s
  ELSE IF v.k = "num" THEN ToString(v.n)
  ELSE v.k

\* JsonVariant::as<uint16_t> : the number cut to 16 bits
AsUint16(v) ==
  IF v.k = "num" THEN v.n % 65536
  ELSE IF v.k = "true" THEN 1
  ELSE 0

\* JsonVariant::as<int> : every number of a document here fits 32 bits
AsInt(v) ==
  IF v.k = "num" THEN v.n
  ELSE IF v.k = "true" THEN 1
  ELSE 0

\* JsonVariant::as<bool>
AsBool(v) ==
  IF v.k = "true" THEN TRUE
  ELSE IF v.k = "num" THEN v.n # 0
  ELSE FALSE

(***************************************************************************)
(* The settings record and its schema.                                     *)
(***************************************************************************)
Categories ==
  {"BASE", "MQTT", "RF_CONFIG", "RF_ECHO", "RF_PROTOCOL", "OTA", "LOGGING",
   "WEB_CONFIG", "SYSLOG"}

\* the setIfPresent calls of deserialize, in the order of the code: the key,
\* the category whose bit the call feeds, and the validator passed
Fields ==
  << [key |-> "deviceName",       cat |-> "BASE",       validator |-> "notEmpty"],
     [key |-> "mdnsName",         cat |-> "BASE",       validator |-> "notEmpty"],
     [key |-> "mqttReceiveTopic", cat |-> "MQTT",       validator |-> "none"],
     [key |-> "mqttSendTopic",    cat |-> "MQTT",       validator |-> "none"],
     [key |-> "mqttOtaTopic",     cat |-> "MQTT",       validator |-> "none"],
     [key |-> "mqttBroker",       cat |-> "MQTT",       validator |-> "notEmpty"],
     [key |-> "mqttBrokerPort",   cat |-> "MQTT",       validator |-> "notZero"],
     [key |-> "mqttUser",         cat |-> "MQTT",       validator |-> "none"],
     [key |-> "mqttPassword",     cat |-> "MQTT",       validator |-> "notEmpty"],
     [key |-> "mqttRetain",       cat |-> "MQTT",       validator |-> "none"],
     [key |-> "rfReceiverPin",    cat |-> "RF_CONFIG",  validator |-> "none"],
     [key |-> "rfTransmitterPin", cat |-> "RF_CONFIG",  validator |-> "none"],
     [key |-> "rfEchoMessages",   cat |-> "RF_ECHO",    validator |-> "none"],
     [key |-> "otaUrl",           cat |-> "OTA",        validator |-> "none"],
     [key |-> "serialLogLevel",   cat |-> "LOGGING",    validator |-> "none"],
     [key |-> "webLogLevel",      cat |-> "LOGGING",    validator |-> "none"],
     [key |-> "configPassword",   cat |-> "WEB_CONFIG", validator |-> "notEmpty"],
     [key |-> "syslogLevel",      cat |-> "SYSLOG",     validator |-> "none"],
     [key |-> "syslogHost",       cat |-> "SYSLOG",     validator |-> "none"],
     [key |-> "syslogPort",       cat |-> "SYSLOG",     validator |-> "none"] >>

\* the declared type of each member of Settings (the field schema)
FieldType(key) ==
  IF key \in {"mqttBrokerPort", "syslogPort"} THEN "uint16"
  ELSE IF key \in {"rfReceiverPin", "rfTransmitterPin"} THEN "int"
  ELSE IF key \in {"mqttRetain", "rfEchoMessages"} THEN "bool"
  ELSE IF key = "rfProtocols" THEN "text"
  ELSE "String"

\* Settings::Settings() : the compiled-in defaults
Defaults ==
  [ deviceName       |-> "rf434",
    mdnsName         |-> "rf434",
    mqttReceiveTopic |-> "rf434/recv/",
    mqttSendTopic    |-> "rf434/send/",
    mqttOtaTopic     |-> "rf434/ota/",
    mqttBroker       |-> "",
    mqttBrokerPort   |-> 1883,
    mqttUser         |-> "",
    mqttPassword     |-> "",
    mqttRetain       |-> TRUE,
    rfReceiverPin    |-> 12,
    rfTransmitterPin |-> 4,
    rfEchoMessages   |-> FALSE,
    rfProtocols      |-> <<Tok("["), Tok("]")>>,
    otaUrl           |-> "",
    serialLogLevel   |-> "debug",
    webLogLevel      |-> "info",
    syslogLevel      |-> "",
    syslogHost       |-> "",
    syslogPort       |-> 514,
    configPassword   |-> "rfESP_password" ]

\* a validator that accepts everything
ValidateNothing(validator, val) == TRUE

\* notEmpty() and notZero<T>(); an empty std::function accepts everything
Validate(validator, val) ==
  IF validator = "notEmpty" THEN val # ""
  ELSE IF validator = "notZero" THEN val # 0
  ELSE TRUE

\* obj.get<TVal>(key) : the member converted to the type of the variable
Get(obj, key) ==
  LET v == Member(obj, key)
      t == FieldType(key)
  IN IF t = "uint16" THEN AsUint16(v)
     ELSE IF t = "int" THEN AsInt(v)
     ELSE IF t = "bool" THEN AsBool(v)
     ELSE AsString(v)

\* setIfPresent without the comparison with the current value
SetIfPresentUncompared(obj, key, var, validator) ==
  IF ContainsKey(obj, key) /\ Validate(validator, Get(obj, key))
    THEN [var |-> Get(obj, key), ret |-> TRUE]
    ELSE [var |-> var, ret |-> FALSE]

\* a setIfPresent that falls back to the compiled-in value when the key is absent
SetOrRestoreDefault(obj, key, var, validator) ==
  IF ContainsKey(obj, key)
    THEN LET tmp == Get(obj, key)
         IN IF tmp # var /\ Validate(validator, tmp)
              THEN [var |-> tmp, ret |-> TRUE]
              ELSE [var |-> var, ret |-> FALSE]
    ELSE [var |-> Defaults[key], ret |-> Defaults[key] # var]

\* setIfPresent : the new value of the variable and the value returned
SetIfPresent(obj, key, var, validator) ==
  IF ContainsKey(obj, key)
    THEN LET tmp == Get(obj, key)
         IN IF tmp # var /\ Validate(validator, tmp)
              THEN [var |-> tmp, ret |-> TRUE]
              ELSE [var |-> var, ret |-> FALSE]
    ELSE [var |-> var, ret |-> FALSE]

\* any : true iff some item of the list is true
any(items) == \E i \in 1..Len(items) : items[i]

RECURSIVE SetAllShortCircuit(_, _, _, _)
\* the calls of a category joined with || : none is made after one returned true
SetAllShortCircuit(obj, s, fs, rets) ==
  IF fs = <<>> \/ any(rets) THEN [s |-> s, rets |-> rets]
  ELSE LET f == Head(fs)
           r == SetIfPresent(obj, f.key, s[f.key], f.validator)
       IN SetAllShortCircuit(obj, [s EXCEPT ![f.key] = r.var], Tail(fs), Append(rets, r.ret))

RECURSIVE SetAll(_, _, _, _)
\* the braced list of setIfPresent calls of one category: every call of the
\* list is made, left to right, before any() looks at the values returned
SetAll(obj, s, fs, rets) ==
  IF fs = <<>> THEN [s |-> s, rets |-> rets]
  ELSE LET f == Head(fs)
           r == SetIfPresent(obj, f.key, s[f.key], f.validator)
       IN SetAll(obj, [s EXCEPT ![f.key] = r.var], Tail(fs), Append(rets, r.ret))

\* the calls of each category, in the order of the code
CategoryFields == [cat \in Categories |-> SelectSeq(Fields, LAMBDA f : f.cat = cat)]

\* the rfProtocols block without the comparison with the stored text
SetProtocolsUncompared(obj, sc) ==
  IF ContainsKey(obj, "rfProtocols")
    THEN [s |-> [sc.s EXCEPT !.rfProtocols = PrintValue(Member(obj, "rfProtocols"))],
          changed |-> sc.changed \cup {"RF_PROTOCOL"}]
    ELSE sc

\* an rfProtocols block that stores arrays only
SetProtocolsArraysOnly(obj, sc) ==
  IF ContainsKey(obj, "rfProtocols") /\ Member(obj, "rfProtocols").k = "arr"
    THEN LET buff == PrintValue(Member(obj, "rfProtocols"))
         IN IF buff # sc.s.rfProtocols
              THEN [s |-> [sc.s EXCEPT !.rfProtocols = buff],
                    changed |-> sc.changed \cup {"RF_PROTOCOL"}]
              ELSE sc
    ELSE sc

\* the rfProtocols block of deserialize
SetProtocols(obj, sc) ==
  IF ContainsKey(obj, "rfProtocols")
    THEN LET buff == PrintValue(Member(obj, "rfProtocols"))
         IN IF buff # sc.s.rfProtocols
              THEN [s |-> [sc.s EXCEPT !.rfProtocols = buff],
                    changed |-> sc.changed \cup {"RF_PROTOCOL"}]
              ELSE sc
    ELSE sc

\* changed.set(cat, any({setIfPresent(...), ...})) on the record sc.s and the
\* set sc.changed; for RF_PROTOCOL, the block of its own
SetCategory(obj, cat, sc) ==
  IF cat = "RF_PROTOCOL" THEN SetProtocols(obj, sc)
  ELSE LET r == SetAll(obj, sc.s, CategoryFields[cat], <<>>)
       IN [s |-> r.s,
           changed |-> IF any(r.rets) THEN sc.changed \cup {cat} ELSE sc.changed \ {cat}]

\* the categories in the order deserialize sets them
CategoryOrder ==
  <<"BASE", "MQTT", "RF_CONFIG", "RF_ECHO", "RF_PROTOCOL", "OTA", "LOGGING",
    "WEB_CONFIG", "SYSLOG">>

\* onConfigChange without the test of typeSet: every listener is called
onConfigChangeUnfiltered(typeSet, ls, s) ==
  [i \in 1..Len(ls) |-> [id |-> ls[i].id, type |-> ls[i].type, seen |-> s]]

\* Settings::onConfigChange : the callbacks invoked, in the order of the list,
\* each with the record it is handed
onConfigChange(typeSet, ls, s) ==
  LET hit == SelectSeq(ls, LAMBDA l : l.type \in typeSet)
  IN [i \in 1..Len(hit) |-> [id |-> hit[i].id, type |-> hit[i].type, seen |-> s]]

RECURSIVE DeserializeFields(_, _, _)
\* the assignments of deserialize, category after category from the i-th on:
\* the record and the SettingTypeSet changed
DeserializeFields(obj, i, sc) ==
  IF i > Len(CategoryOrder) THEN sc
  ELSE DeserializeFields(obj, i + 1, SetCategory(obj, CategoryOrder[i], sc))

RECURSIVE NotifyEach(_, _, _, _)
\* callbacks invoked category after category, each right after the fields of its
\* category were assigned
NotifyEach(obj, ls, i, sc) ==
  IF i > Len(CategoryOrder) THEN <<>>
  ELSE LET n == SetCategory(obj, CategoryOrder[i], sc)
       IN onConfigChange(n.changed \cap {CategoryOrder[i]}, ls, n.s)
            \o NotifyEach(obj, ls, i + 1, n)

\* a deserialize that notifies after every category instead of at its end
deserializeNotifyingEach(s, ls, json, fireCallbacks) ==
  LET parsedSettings == ParseObject(json)
      c == DeserializeFields(parsedSettings.obj, 1, [s |-> s, changed |-> {}])
  IN IF ~parsedSettings.success
       THEN [success |-> FALSE, s |-> s, changed |-> {}, calls |-> <<>>]
       ELSE [success |-> TRUE, s |-> c.s, changed |-> c.changed,
             calls |-> IF fireCallbacks
                         THEN NotifyEach(parsedSettings.obj, ls, 1, [s |-> s, changed |-> {}])
                         ELSE <<>>]

\* a deserialize whose set changed starts from the set the call before it left
deserializeKeepingChanged(s, ls, json, fireCallbacks) ==
  LET parsedSettings == ParseObject(json)
      c == DeserializeFields(parsedSettings.obj, 1, [s |-> s, changed |-> {}])
  IN IF ~parsedSettings.success
       THEN [success |-> FALSE, s |-> s, changed |-> {}, calls |-> <<>>]
       ELSE [success |-> TRUE, s |-> c.s, changed |-> c.changed \cup changed,
             calls |-> IF fireCallbacks
                         THEN onConfigChange(c.changed \cup changed, ls, c.s)
                         ELSE <<>>]

\* Settings::deserialize : the record, the set changed and the callbacks invoked
deserialize(s, ls, json, fireCallbacks) ==
  LET parsedSettings == ParseObject(json)
      c == DeserializeFields(parsedSettings.obj, 1, [s |-> s, changed |-> {}])
  IN IF ~parsedSettings.success
       THEN [success |-> FALSE, s |-> s, changed |-> {}, calls |-> <<>>]
       ELSE [success |-> TRUE, s |-> c.s, changed |-> c.changed,
             calls |-> IF fireCallbacks THEN onConfigChange(c.changed, ls, c.s)
                       ELSE <<>>]

(***************************************************************************)
(* Callbacks that call back.  Neither onConfigChange nor deserialize       *)
(* guards against a callback that calls deserialize(json, true) again with *)
(* the document being applied.  The operators below run such a call tree:  *)
(* trace lists, in order, every deserialize entered (id 0) and every       *)
(* callback invoked (the id of its entry), each with its nesting depth,    *)
(* the set changed of its deserialize and the record at that moment;       *)
(* overflow says that the nesting went beyond MaxDepth.                    *)
(***************************************************************************)
RECURSIVE deserializeReentrant(_, _, _, _)
RECURSIVE onConfigChangeReentrant(_, _, _, _, _, _)

\* the loop of onConfigChange from the i-th entry on, every callback calling
\* deserialize(json, true) on the record as it then is
onConfigChangeReentrant(typeSet, ls, i, s, json, depth) ==
  IF i > Len(ls) THEN [s |-> s, trace |-> <<>>, overflow |-> FALSE]
  ELSE IF ls[i].type \notin typeSet
    THEN onConfigChangeReentrant(typeSet, ls, i + 1, s, json, depth)
  ELSE LET nested == deserializeReentrant(s, ls, json, depth + 1)
           rest == IF nested.overflow
                     THEN [s |-> nested.s, trace |-> <<>>, overflow |-> TRUE]
                     ELSE onConfigChangeReentrant(typeSet, ls, i + 1, nested.s, json, depth)
       IN [s |-> rest.s,
           trace |-> <<[depth |-> depth, id |-> ls[i].id, type |-> ls[i].type,
                        changed |-> typeSet, seen |-> s]>>
                     \o nested.trace \o rest.trace,
           overflow |-> rest.overflow]

\* a deserialize that invokes the callbacks before it assigns the fields: the
\* callbacks find the record as it was
deserializeNotifyingFirst(s, ls, json, depth) ==
  LET parsedSettings == ParseObject(json)
      c == DeserializeFields(parsedSettings.obj, 1, [s |-> s, changed |-> {}])
      entry == [depth |-> depth, id |-> 0, type |-> "", seen |-> s,
                changed |-> IF parsedSettings.success THEN c.changed ELSE {}]
  IN IF depth > MaxDepth THEN [s |-> s, trace |-> <<>>, overflow |-> TRUE]
     ELSE IF ~parsedSettings.success
       THEN [s |-> s, trace |-> <<entry>>, overflow |-> FALSE]
     ELSE LET n == onConfigChangeReentrant(c.changed, ls, 1, s, json, depth)
          IN [s |-> c.s, trace |-> <<entry>> \o n.trace, overflow |-> n.overflow]

\* Settings::deserialize(json, true) with such callbacks, entered at depth
deserializeReentrant(s, ls, json, depth) ==
  LET parsedSettings == ParseObject(json)
      c == DeserializeFields(parsedSettings.obj, 1, [s |-> s, changed |-> {}])
      entry == [depth |-> depth, id |-> 0, type |-> "", seen |-> s,
                changed |-> IF parsedSettings.success THEN c.changed ELSE {}]
  IN IF depth > MaxDepth THEN [s |-> s, trace |-> <<>>, overflow |-> TRUE]
     ELSE IF ~parsedSettings.success
       THEN [s |-> s, trace |-> <<entry>>, overflow |-> FALSE]
     ELSE LET n == onConfigChangeReentrant(c.changed, ls, 1, c.s, json, depth)
          IN [s |-> n.s, trace |-> <<entry>> \o n.trace, overflow |-> n.overflow]

\* the value of a member of Settings as a JSON value
ToJson(key, val) ==
  LET t == FieldType(key)
  IN IF t \in {"uint16", "int"} THEN JNum(val)
     ELSE IF t = "bool" THEN JBool(val)
     ELSE JStr(val)

\* the nested array of serialize: every element of the stored text as a String
Protos(text) ==
  LET parsedProtocols == ParseArray(text)
  IN JArr([i \in 1..Len(parsedProtocols) |-> JStr(AsString(parsedProtocols[i]))])

SerializeKeys ==
  << "deviceName", "mdnsName", "mqttReceiveTopic", "mqttSendTopic", "mqttOtaTopic",
     "mqttBroker", "mqttBrokerPort", "mqttUser", "mqttRetain", "rfReceiverPin",
     "rfTransmitterPin", "rfEchoMessages", "rfProtocols", "otaUrl", "serialLogLevel",
     "webLogLevel", "syslogLevel", "syslogHost", "syslogPort" >>

SensibleKeys == << "mqttPassword", "configPassword" >>

\* the object of a serialize that writes the sensible keys unconditionally
RootUnredacted(s, sensible) ==
  LET keys == SerializeKeys \o SensibleKeys
  IN [i \in 1..Len(keys) |->
        [key |-> keys[i],
         val |-> IF keys[i] = "rfProtocols" THEN Protos(s.rfProtocols)
                 ELSE ToJson(keys[i], s[keys[i]])]]

\* the object serialize builds
Root(s, sensible) ==
  LET keys == IF sensible THEN SerializeKeys \o SensibleKeys ELSE SerializeKeys
  IN [i \in 1..Len(keys) |->
        [key |-> keys[i],
         val |-> IF keys[i] = "rfProtocols" THEN Protos(s.rfProtocols)
                 ELSE ToJson(keys[i], s[keys[i]])]]

\* Settings::serialize : the text printed to the stream
serialize(s, pretty, sensible) ==
  IF pretty THEN PrettyPrintTo(Root(s, sensible)) ELSE PrintTo(Root(s, sensible))

(***************************************************************************)
(* The persisted document: SPIFFS holds SETTINGS_FILE or not.              *)
(***************************************************************************)
NoFile == [exists |-> FALSE, content |-> <<>>]

RECURSIVE readStringUntil(_, _)
\* Stream::readStringUntil(SETTINGS_TERMINATOR) : the text before the terminator
readStringUntil(content, i) ==
  IF i > Len(content) \/ content[i].k = "term" THEN <<>>
  ELSE <<content[i]>> \o readStringUntil(content, i + 1)

\* a load whose deserialize fires the callbacks too
loadNotifying(s, ls, f) ==
  LET d == IF f.exists THEN deserialize(s, ls, readStringUntil(f.content, 1), TRUE)
           ELSE [success |-> FALSE, s |-> s, changed |-> {}, calls |-> <<>>]
  IN [s |-> d.s, changed |-> d.changed,
      calls |-> d.calls \o onConfigChange(Categories, ls, d.s)]

\* Settings::load
load(s, ls, f) ==
  LET d == IF f.exists THEN deserialize(s, ls, readStringUntil(f.content, 1), FALSE)
           ELSE [success |-> FALSE, s |-> s, changed |-> {}, calls |-> <<>>]
  IN [s |-> d.s, changed |-> d.changed,
      calls |-> d.calls \o onConfigChange(Categories, ls, d.s)]

\* a save that leaves an empty file behind when the file cannot be opened
saveClobbering(s, f, opened) ==
  [exists |-> TRUE, content |-> IF opened THEN serialize(s, FALSE, TRUE) ELSE <<>>]

\* Settings::save : the file afterwards; opened says whether SPIFFS.open gave a file
save(s, f, opened) ==
  IF ~opened THEN f
  ELSE [exists |-> TRUE, content |-> serialize(s, FALSE, TRUE)]

\* a reset that leaves the file in place
resetKeepsFile(f) == f

\* a reset that empties the file and leaves it in place
resetTruncates(f) == [exists |-> TRUE, content |-> <<>>]

\* Settings::reset
reset(f) == IF f.exists THEN NoFile ELSE f

\* a registerChangeHandler that adds at the back of the list
registerChangeHandlerBack(ls, setting) ==
  ls \o <<[type |-> setting, id |-> Len(ls) + 1]>>

\* Settings::registerChangeHandler : emplace_front; id numbers the registrations
registerChangeHandler(ls, setting) ==
  <<[type |-> setting, id |-> Len(ls) + 1]>> \o ls

\* an updateOtaUrl that drops the value it is given
updateOtaUrlDropped(s, otaUrl) == s

\* Settings::updateOtaUrl
updateOtaUrl(s, otaUrl) == [s EXCEPT !.otaUrl = otaUrl]

(***************************************************************************)
(* The inputs explored.  A run draws its documents over a set of at most   *)
(* two keys: every document over those keys with the values DocValues      *)
(* gives, and two texts that are no object.                                *)
(***************************************************************************)
AllKeys == SerializeKeys \o SensibleKeys

\* the values tried for each key; the first is a value that differs from the
\* default and passes the validator of the key
DocValues(key) ==
  CASE key = "deviceName"       -> <<JStr("gw2"), JStr("rf434"), JStr("")>>
    [] key = "mdnsName"         -> <<JStr("gw2"), JStr("rf434"), JStr("")>>
    [] key = "mqttReceiveTopic" -> <<JStr("gw2/recv/"), JStr("rf434/recv/")>>
    [] key = "mqttSendTopic"    -> <<JStr("gw2/send/"), JStr("rf434/send/")>>
    [] key = "mqttOtaTopic"     -> <<JStr(""), JStr("rf434/ota/")>>
    [] key = "mqttBroker"       -> <<JStr("10.0.0.5"), JStr("")>>
    [] key = "mqttBrokerPort"   -> <<JNum(8883), JNum(1883), JNum(0), JNum(65536),
                                     JNum(74419)>>
    [] key = "mqttUser"         -> <<JStr("user"), JStr(""), JNum(7)>>
    [] key = "mqttPassword"     -> <<JStr("secret"), JStr("")>>
    [] key = "mqttRetain"       -> <<JBool(FALSE), JBool(TRUE)>>
    [] key = "rfReceiverPin"    -> <<JNum(5), JNum(12)>>
    [] key = "rfTransmitterPin" -> <<JNum(5), JNum(4)>>
    [] key = "rfEchoMessages"   -> <<JBool(TRUE), JBool(FALSE)>>
    [] key = "rfProtocols"      -> <<JArr(<<JStr("arctech_switch")>>), JArr(<<>>),
                                     JArr(<<JNum(1), JStr("x")>>), JStr("all")>>
    [] key = "otaUrl"           -> <<JStr("http://ota/fw.bin"), JStr("")>>
    [] key = "serialLogLevel"   -> <<JStr("info"), JStr("debug")>>
    [] key = "webLogLevel"      -> <<JStr(""), JStr("info")>>
    [] key = "syslogLevel"      -> <<JStr("info"), JStr("")>>
    [] key = "syslogHost"       -> <<JStr("loghost"), JStr("")>>
    [] key = "syslogPort"       -> <<JNum(0), JNum(514), JNum(66050)>>
    [] key = "configPassword"   -> <<JStr("secret"), JStr("rfESP_password"), JStr("")>>

OtaUrls == {"http://ota/fw.bin", "http://ota/fw2.bin"}

\* the object with the members of the function f, in the order of AllKeys
ObjOf(f) ==
  LET ks == SelectSeq(AllKeys, LAMBDA k : k \in DOMAIN f)
  IN [i \in 1..Len(ks) |-> [key |-> ks[i], val |-> f[ks[i]]]]

\* every document over the keys K
DocsOf(K) ==
  LET vals == UNION {{DocValues(k)[i] : i \in 1..Len(DocValues(k))} : k \in K}
  IN {ObjOf(f) :
        f \in UNION {{g \in [D -> vals] :
                        \A k \in D : \E i \in 1..Len(DocValues(k)) : g[k] = DocValues(k)[i]}
                      : D \in SUBSET K}}

\* the document that changes every key of K from its default
FullDoc(K) == ObjOf([k \in K |-> DocValues(k)[1]])

\* a text cut short: everything but its last token
Truncated(t) == SubSeq(t, 1, Len(t) - 1)

\* the texts a run feeds to deserialize: the documents, one of them indented,
\* and two texts that are no object
TextsOf(K) ==
  {PrintTo(d) : d \in DocsOf(K)}
  \cup {PrettyPrintTo(FullDoc(K)), <<>>, Truncated(PrintTo(FullDoc(K)))}

\* the files a run may find at boot: none, one cut short, and a document
\* followed by the terminator and the rest of an older, longer file
FilesOf(K) ==
  { NoFile,
    [exists |-> TRUE, content |-> Truncated(PrintTo(FullDoc(K)))],
    [exists |-> TRUE, content |-> PrintTo(FullDoc(K)) \o <<Tok("term"), Tok("}")>>] }

\* the category of a key
FieldCategory(key) ==
  IF key = "rfProtocols" THEN "RF_PROTOCOL"
  ELSE Fields[CHOOSE i \in 1..Len(Fields) : Fields[i].key = key].cat

(***************************************************************************)
(* The state machine.  settings, listeners and file are the state of the   *)
(* program; universe holds the keys of the documents of the run.  The      *)
(* other variables record the last call: lastOp its name and arguments,    *)
(* sequel what it follows ("same document": a deserialize of the text the  *)
(* deserialize just before it was given; "serialized": a deserialize of    *)
(* the text the serialize just before it printed with the sensible         *)
(* fields; "updated": a deserialize right after an updateOtaUrl; "reset":  *)
(* a load right after a reset), pre the record before it, before the       *)
(* listener list and the file before it and the categories the call just   *)
(* before it changed if that was a deserialize without callbacks, changed  *)
(* the SettingTypeSet deserialize built, calls the callbacks invoked, in   *)
(* order, and out the text printed to the stream.                          *)
(***************************************************************************)
Op(name, json, flag, flag2, arg) ==
  [op |-> name, json |-> json, flag |-> flag, flag2 |-> flag2, arg |-> arg]

\* the key sets of the runs with subscribers: two keys of two categories, a
\* sensible key, and the key updateOtaUrl writes
NotifyKeySets ==
  { {"mqttBroker", "rfReceiverPin"}, {"configPassword"}, {"otaUrl"} }

\* every key alone and every pair of keys of one category
CategoryKeySets ==
  {{"rfProtocols"}}
  \cup { {Fields[i].key, Fields[j].key} :
           <<i, j>> \in {p \in (1..Len(Fields)) \X (1..Len(Fields)) :
                           Fields[p[1]].cat = Fields[p[2]].cat} }

\* the texts of each run, by its key set
Texts == [K \in NotifyKeySets \cup CategoryKeySets |-> TextsOf(K)]

\* no callback has called back into the store; no LED has been constructed
NoReentry == [trace |-> <<>>, overflow |-> FALSE]

NoLED == [class |-> "none"]

\* what before records of the state a call starts from
Before(suppressed) ==
  [listeners |-> listeners, file |-> file, suppressed |-> suppressed]

InitWith(keySets, boot) ==
  /\ settings = Defaults
  /\ listeners = <<>>
  /\ \E K \in keySets :
        /\ universe = K
        /\ file \in (IF boot THEN FilesOf(K) ELSE {NoFile})
  /\ lastOp = Op("construct", <<>>, FALSE, FALSE, "")
  /\ sequel = "none"
  /\ pre = Defaults
  /\ before = [listeners |-> <<>>, file |-> file, suppressed |-> {}]
  /\ changed = {}
  /\ calls = <<>>
  /\ out = <<>>
  /\ reentry = NoReentry

Init == InitWith(NotifyKeySets, TRUE) /\ led = NoLED

RegisterChangeHandler ==
  \E setting \in {FieldCategory(k) : k \in universe} :
    /\ Len(listeners) < MaxListeners
    /\ listeners' = registerChangeHandler(listeners, setting)
    /\ lastOp' = Op("registerChangeHandler", <<>>, FALSE, FALSE, setting)
    /\ sequel' = "none"
    /\ pre' = settings
    /\ before' = Before({})
    /\ changed' = {}
    /\ calls' = <<>>
    /\ out' = <<>>
    /\ reentry' = NoReentry
    /\ UNCHANGED <<settings, file, universe, led>>

\* a call of deserialize; remember says whether before records the categories
\* changed by a call without callbacks just before it
DeserializeFrom(flags, remember) ==
  \E json \in Texts[universe] \cup (IF lastOp.op = "serialize" THEN {out} ELSE {}),
     fireCallbacks \in flags :
    LET d == deserialize(settings, listeners, json, fireCallbacks)
    IN /\ settings' = d.s
       /\ changed' = d.changed
       /\ calls' = d.calls
       /\ lastOp' = Op("deserialize", json, fireCallbacks, FALSE, "")
       /\ sequel' = IF lastOp.op = "deserialize" /\ lastOp.json = json
                       THEN "same document"
                     ELSE IF lastOp.op = "serialize" /\ lastOp.flag2 /\ json = out
                       THEN "serialized"
                     ELSE IF lastOp.op = "updateOtaUrl"
                       THEN "updated"
                     ELSE "none"
       /\ pre' = settings
       /\ before' = Before(IF remember /\ lastOp.op = "deserialize" /\ ~lastOp.flag
                             THEN changed ELSE {})
       /\ out' = <<>>
       /\ reentry' = NoReentry
       /\ UNCHANGED <<listeners, file, universe, led>>

DeserializeWith(flags) == DeserializeFrom(flags, FALSE)

Deserialize == DeserializeWith(BOOLEAN)

\* with no subscriber registered the flag decides nothing
DeserializeUnobserved == DeserializeWith({TRUE})

Serialize ==
  \E pretty \in BOOLEAN, sensible \in BOOLEAN :
    /\ out' = serialize(settings, pretty, sensible)
    /\ lastOp' = Op("serialize", <<>>, pretty, sensible, "")
    /\ sequel' = "none"
    /\ pre' = settings
    /\ before' = Before({})
    /\ changed' = {}
    /\ calls' = <<>>
    /\ reentry' = NoReentry
    /\ UNCHANGED <<settings, listeners, file, universe, led>>

Load ==
  LET l == load(settings, listeners, file)
  IN /\ settings' = l.s
     /\ changed' = l.changed
     /\ calls' = l.calls
     /\ lastOp' = Op("load", <<>>, FALSE, FALSE, "")
     /\ sequel' = IF lastOp.op = "reset" THEN "reset" ELSE "none"
     /\ pre' = settings
     /\ before' = Before({})
     /\ out' = <<>>
     /\ reentry' = NoReentry
     /\ UNCHANGED <<listeners, file, universe, led>>

Save ==
  \E opened \in BOOLEAN :
    /\ file' = save(settings, file, opened)
    /\ lastOp' = Op("save", <<>>, opened, FALSE, "")
    /\ sequel' = "none"
    /\ pre' = settings
    /\ before' = Before({})
    /\ changed' = {}
    /\ calls' = <<>>
    /\ out' = <<>>
    /\ reentry' = NoReentry
    /\ UNCHANGED <<settings, listeners, universe, led>>

Reset ==
  /\ file' = reset(file)
  /\ lastOp' = Op("reset", <<>>, FALSE, FALSE, "")
  /\ sequel' = "none"
  /\ pre' = settings
  /\ before' = Before({})
  /\ changed' = {}
  /\ calls' = <<>>
  /\ out' = <<>>
  /\ reentry' = NoReentry
  /\ UNCHANGED <<settings, listeners, universe, led>>

UpdateOtaUrl ==
  \E otaUrl \in OtaUrls :
    /\ "otaUrl" \in universe
    /\ settings' = updateOtaUrl(settings, otaUrl)
    /\ lastOp' = Op("updateOtaUrl", <<>>, FALSE, FALSE, otaUrl)
    /\ sequel' = "none"
    /\ pre' = settings
    /\ before' = Before({})
    /\ changed' = {}
    /\ calls' = <<>>
    /\ out' = <<>>
    /\ reentry' = NoReentry
    /\ UNCHANGED <<listeners, file, universe, led>>

Next ==
  \/ RegisterChangeHandler
  \/ Deserialize
  \/ Serialize
  \/ Load
  \/ Save
  \/ Reset
  \/ UpdateOtaUrl

Spec == Init /\ [][Next]_vars

(***************************************************************************)
(* The store without subscribers, fed every document over every key and    *)
(* over every pair of keys of one category.                                *)
(***************************************************************************)
FieldInit == InitWith(CategoryKeySets, FALSE) /\ led = NoLED

FieldNext ==
  \/ DeserializeUnobserved
  \/ Serialize
  \/ UpdateOtaUrl

FieldSpec == FieldInit /\ [][FieldNext]_vars

(***************************************************************************)
(* The store and its subscribers: registrations and deserialize calls,     *)
(* with callbacks that return at once and with callbacks that call         *)
(* deserialize again.                                                      *)
(***************************************************************************)
DeserializeRemembering == DeserializeFrom(BOOLEAN, TRUE)

\* deserialize(json, true) while every callback calls deserialize(json, true)
DeserializeReentrant ==
  \E json \in Texts[universe] :
    LET d == deserializeReentrant(settings, listeners, json, 1)
        outer == SelectSeq(d.trace, LAMBDA e : e.depth = 1 /\ e.id # 0)
    IN /\ settings' = d.s
       /\ changed' = d.trace[1].changed
       /\ calls' = [i \in 1..Len(outer) |->
                      [id |-> outer[i].id, type |-> outer[i].type, seen |-> outer[i].seen]]
       /\ reentry' = [trace |-> d.trace, overflow |-> d.overflow]
       /\ lastOp' = Op("deserialize", json, TRUE, FALSE, "reentrant")
       /\ sequel' = "none"
       /\ pre' = settings
       /\ before' = Before({})
       /\ out' = <<>>
       /\ UNCHANGED <<listeners, file, universe, led>>

NotifyKeys == {"mqttBroker", "rfReceiverPin"}

NotifyInit == InitWith({NotifyKeys}, FALSE) /\ led = NoLED

NotifyNext ==
  \/ RegisterChangeHandler
  \/ DeserializeRemembering
  \/ DeserializeReentrant

NotifySpec == NotifyInit /\ [][NotifyNext]_vars

(***************************************************************************)
(* The heartbeat LED.  led holds the members of the object (class,         *)
(* activeHigh, state), the pin it drives (mode, and level, the value last  *)
(* written to it), and of the run: initial, what getState() returned       *)
(* right after construction, log, the calls made since, and got, what      *)
(* getState() returned before the last of them.                            *)
(***************************************************************************)
pin_val(value) == IF value THEN "HIGH" ELSE "LOW"

pinMode(l, mode) == [l EXCEPT !.mode = mode]

digitalWrite(l, val) == [l EXCEPT !.level = val]

\* an output reads back the level written, a released pin its pull-up
digitalRead(l) == IF l.mode = "OUTPUT" THEN l.level ELSE "HIGH"

LED_on(l) == digitalWrite(l, pin_val(l.activeHigh))

LED_off(l) == digitalWrite(l, pin_val(~l.activeHigh))

\* digitalRead(_pin) == _activeHigh, HIGH being 1 and LOW 0
LED_getState(l) == (digitalRead(l) = "HIGH") = l.activeHigh

LEDOpenDrain_on(l) ==
  [digitalWrite(pinMode(l, "OUTPUT"), "LOW") EXCEPT !.state = TRUE]

\* an off of LEDOpenDrain that forgets to record the state
LEDOpenDrain_offUnrecorded(l) == pinMode(l, "INPUT_PULLUP")

LEDOpenDrain_off(l) == [pinMode(l, "INPUT_PULLUP") EXCEPT !.state = FALSE]

LEDOpenDrain_getState(l) == l.state

\* the virtual members, dispatched on the class of the object
on(l) == IF l.class = "LEDOpenDrain" THEN LEDOpenDrain_on(l) ELSE LED_on(l)

off(l) == IF l.class = "LEDOpenDrain" THEN LEDOpenDrain_off(l) ELSE LED_off(l)

getState(l) ==
  IF l.class = "LEDOpenDrain" THEN LEDOpenDrain_getState(l) ELSE LED_getState(l)

\* LED::toggle
toggle(l) == IF getState(l) THEN off(l) ELSE on(l)

\* LED::setState
setState(l, state) == IF state THEN on(l) ELSE off(l)

\* LED::LED : the pin an output, then off() of LED itself, whatever the class
\* under construction; the level the pin had before is overwritten
LED_LED(activeHigh) ==
  LED_off([class |-> "LED", activeHigh |-> activeHigh, mode |-> "OUTPUT",
           level |-> "LOW", state |-> FALSE])

\* LEDOpenDrain::LEDOpenDrain : LED(pin) and nothing more; activeHigh is the
\* default of the declaration and _state is whatever the memory held
LEDOpenDrain_LEDOpenDrain(activeHigh, garbage) ==
  [LED_LED(activeHigh) EXCEPT !.class = "LEDOpenDrain", !.state = garbage]

\* the objects a run starts with, right after construction
Constructed ==
  {LED_LED(activeHigh) : activeHigh \in BOOLEAN}
  \cup {LEDOpenDrain_LEDOpenDrain(activeHigh, garbage) :
          activeHigh \in BOOLEAN, garbage \in BOOLEAN}

\* the members of led that are the object and its pin
Device(l) ==
  [class |-> l.class, activeHigh |-> l.activeHigh, mode |-> l.mode,
   level |-> l.level, state |-> l.state]

\* the object after a call, with the call entered in the log
Called(l, name) ==
  [class |-> l.class, activeHigh |-> l.activeHigh, mode |-> l.mode,
   level |-> l.level, state |-> l.state, initial |-> led.initial,
   log |-> Append(led.log, name), got |-> getState(Device(led))]

LedInit ==
  /\ InitWith({{}}, FALSE)
  /\ \E l \in Constructed :
        led = [class |-> l.class, activeHigh |-> l.activeHigh, mode |-> l.mode,
               level |-> l.level, state |-> l.state, initial |-> getState(l),
               log |-> <<>>, got |-> getState(l)]

StoreUntouched ==
  UNCHANGED <<settings, listeners, file, universe, lastOp, sequel, pre, before, changed,
              calls, out, reentry>>

LedOn ==
  /\ Len(led.log) < MaxCalls
  /\ led' = Called(on(Device(led)), "on")
  /\ StoreUntouched

LedOff ==
  /\ Len(led.log) < MaxCalls
  /\ led' = Called(off(Device(led)), "off")
  /\ StoreUntouched

LedToggle ==
  /\ Len(led.log) < MaxCalls
  /\ led' = Called(toggle(Device(led)), "toggle")
  /\ StoreUntouched

LedSetState ==
  \E state \in BOOLEAN :
    /\ Len(led.log) < MaxCalls
    /\ led' = Called(setState(Device(led), state),
                     IF state THEN "setState(true)" ELSE "setState(false)")
    /\ StoreUntouched

LedNext ==
  \/ LedOn
  \/ LedOff
  \/ LedToggle
  \/ LedSetState

LedSpec == LedInit /\ [][LedNext]_vars

(***************************************************************************)
(* What the last call was given, read back from lastOp.                    *)
(***************************************************************************)
Deserialized == lastOp.op = "deserialize"

\* the document of the last deserialize, as the parser read it
Doc == ParseObject(lastOp.json).obj

\* a deserialize of a text that parses
Parsed == Deserialized /\ ParseObject(lastOp.json).success

Present(key) == ContainsKey(Doc, key)

\* the value of the document for a key, as the type of the field reads it
TypedValue(key) ==
  IF key = "rfProtocols" THEN PrintValue(Member(Doc, key)) ELSE Get(Doc, key)

\* the fields deserialize guards with notEmpty(), the one it guards with
\* notZero(), and the fields it does not guard
NotEmptyKeys == {"deviceName", "mdnsName", "mqttBroker", "mqttPassword", "configPassword"}

NotZeroKeys == {"mqttBrokerPort"}

UnvalidatedKeys ==
  {"mqttReceiveTopic", "mqttSendTopic", "mqttOtaTopic", "mqttUser", "mqttRetain",
   "rfReceiverPin", "rfTransmitterPin", "rfEchoMessages", "rfProtocols", "otaUrl",
   "serialLogLevel", "webLogLevel", "syslogLevel", "syslogHost", "syslogPort"}

\* the document holds key with a value the validator of key rejects
Rejected(key) ==
  /\ Present(key)
  /\ \/ key \in NotEmptyKeys /\ TypedValue(key) = ""
     \/ key \in NotZeroKeys /\ TypedValue(key) = 0

\* the document holds key with a value that passes the validator of key, if any
Accepted(key) == Present(key) /\ ~Rejected(key)

\* the texts of a run that are no object
Malformed == {<<>>, Truncated(PrintTo(FullDoc(universe)))}

\* the keys whose value the last call changed
Mutated == {k \in DOMAIN settings : settings[k] # pre[k]}

\* the callbacks the last call made to the listener registered id-th
CallsTo(id) == {i \in 1..Len(calls) : calls[i].id = id}

(***************************************************************************)
(* C1.  Selective notification: deserialize(doc, fireCallbacks = true) of  *)
(* a document that parses invokes a listener entry exactly once if the     *)
(* call changed a field of the entry's category, and not at all otherwise. *)
(***************************************************************************)
C1_SelectiveNotification ==
  (Deserialized /\ lastOp.flag /\ lastOp.json \notin Malformed) =>
    \A i \in 1..Len(listeners) :
      Cardinality(CallsTo(listeners[i].id)) =
        IF \E k \in Mutated : FieldCategory(k) = listeners[i].type THEN 1 ELSE 0

\* a call that changed mqttBroker only, with listeners for MQTT and RF_CONFIG:
\* the first is called, the second is not
C1_Witness ==
  /\ Deserialized /\ lastOp.flag
  /\ Mutated = {"mqttBroker"}
  /\ \E i, j \in 1..Len(listeners) :
        /\ listeners[i].type = "MQTT" /\ listeners[j].type = "RF_CONFIG"
        /\ Cardinality(CallsTo(listeners[i].id)) = 1
        /\ CallsTo(listeners[j].id) = {}

(***************************************************************************)
(* C2.  deserialize of a text that does not parse changes no field, marks  *)
(* no category and invokes no listener, whatever fireCallbacks is.         *)
(***************************************************************************)
C2_MalformedIsNoOp ==
  (Deserialized /\ lastOp.json \in Malformed) =>
    /\ settings = pre
    /\ changed = {}
    /\ calls = <<>>

\* a document cut short whose members would change the record, given with
\* fireCallbacks = true while a listener for a category of its keys waits
C2_Witness ==
  /\ Deserialized /\ lastOp.flag
  /\ lastOp.json = Truncated(PrintTo(FullDoc(universe)))
  /\ \E k \in universe : pre[k] = Defaults[k]
  /\ listeners # <<>>
(***************************************************************************)
(* C3.  A value the validator of a field rejects never changes the field   *)
(* and never marks its category: the category is marked only if another    *)
(* of its fields changed.                                                  *)
(***************************************************************************)
C3_RejectedValueIgnored ==
  Parsed =>
    \A k \in NotEmptyKeys \cup NotZeroKeys :
      Rejected(k) =>
        /\ settings[k] = pre[k]
        /\ FieldCategory(k) \in changed =>
             \E g \in Mutated \ {k} : FieldCategory(g) = FieldCategory(k)

\* a rejected value that differs from the current one, alone in its category
C3_Witness ==
  /\ Parsed
  /\ \E k \in NotEmptyKeys \cup NotZeroKeys :
        /\ Rejected(k)
        /\ TypedValue(k) # pre[k]
        /\ pre[k] # Defaults[k]
        /\ FieldCategory(k) \notin changed

(***************************************************************************)
(* C4.  For a field without validator: a value that differs from the       *)
(* current one is stored and marks the category of the field; a document   *)
(* whose only key holds the current value changes nothing and marks no     *)
(* category.                                                               *)
(***************************************************************************)
C4_UnvalidatedField ==
  Parsed =>
    \A k \in UnvalidatedKeys :
      /\ (Present(k) /\ TypedValue(k) # pre[k]) =>
            (settings[k] = TypedValue(k) /\ FieldCategory(k) \in changed)
      /\ (Present(k) /\ Len(Doc) = 1 /\ TypedValue(k) = pre[k]) =>
            (settings = pre /\ changed = {})

\* syslogPort, a uint16 without validator, set to zero from a non-default value
C4_Witness ==
  /\ Parsed
  /\ Present("syslogPort")
  /\ pre.syslogPort # 0
  /\ settings.syslogPort = 0
  /\ "SYSLOG" \in changed

(***************************************************************************)
(* C5.  Partial application: every key of a parsed document whose value    *)
(* passes the validator of its field (or has none) is stored, and marks    *)
(* its category if it differs from the current value, whatever happened    *)
(* to the other keys of the category.                                      *)
(***************************************************************************)
C5_PartialApplication ==
  Parsed =>
    \A k \in DOMAIN settings :
      Accepted(k) =>
        /\ settings[k] = TypedValue(k)
        /\ TypedValue(k) # pre[k] => FieldCategory(k) \in changed

\* {"mqttBroker":"10.0.0.5","mqttBrokerPort":0} on a record with another broker
C5_Witness ==
  /\ Parsed
  /\ Len(Doc) = 2
  /\ Present("mqttBroker") /\ Member(Doc, "mqttBroker") = JStr("10.0.0.5")
  /\ Present("mqttBrokerPort") /\ Member(Doc, "mqttBrokerPort") = JNum(0)
  /\ pre.mqttBroker # "10.0.0.5"
  /\ settings.mqttBroker = "10.0.0.5"
  /\ "MQTT" \in changed
  /\ settings.mqttBrokerPort = pre.mqttBrokerPort
(***************************************************************************)
(* C6.  Idempotence: a deserialize of the very text the deserialize just   *)
(* before it was given marks no category, changes no field and invokes no  *)
(* listener.                                                               *)
(***************************************************************************)
C6_Idempotent ==
  (Deserialized /\ sequel = "same document") =>
    /\ changed = {}
    /\ settings = pre
    /\ calls = <<>>

\* the second of two calls with a document whose first call changed a field
C6_Witness ==
  /\ Parsed /\ sequel = "same document"
  /\ \E k \in DOMAIN settings :
        Present(k) /\ settings[k] = TypedValue(k) /\ settings[k] # Defaults[k]

(***************************************************************************)
(* C7.  Round trip: serialize with the sensible fields, followed by a      *)
(* deserialize of the text it printed, leaves the record identical, field  *)
(* for field, the stored rfProtocols text included.                        *)
(***************************************************************************)
C7_RoundTrip ==
  (Deserialized /\ sequel = "serialized") => settings = pre

(***************************************************************************)
(* C8.  As claimed: reset() followed by load() yields the compiled-in      *)
(* defaults, whatever deserialize and save calls came before the reset.    *)
(***************************************************************************)
C8_ResetThenLoadYieldsDefaults ==
  (lastOp.op = "load" /\ sequel = "reset") => settings = Defaults

(***************************************************************************)
(* C8, amended.  reset() followed by load() reads no document: the file    *)
(* is gone and the load leaves the record exactly as it was before it,     *)
(* which is the defaults only if the record held them.                     *)
(***************************************************************************)
C8_ResetThenLoadKeepsRecord ==
  (lastOp.op = "load" /\ sequel = "reset") =>
    /\ ~file.exists
    /\ settings = pre
    /\ changed = {}

\* a load right after a reset, on a record an earlier call had changed
C8_Witness ==
  /\ lastOp.op = "load" /\ sequel = "reset"
  /\ settings # Defaults

(***************************************************************************)
(* C9.  load() invokes every listener entry exactly once, whether there    *)
(* is no document (the record stays as it was), one that parses or one     *)
(* that does not; its deserialize step invokes none.                       *)
(***************************************************************************)
C9_LoadFiresAllOnce ==
  lastOp.op = "load" =>
    /\ Len(calls) = Len(listeners)
    /\ \A i \in 1..Len(listeners) : Cardinality(CallsTo(listeners[i].id)) = 1
    /\ ~file.exists => settings = pre

\* a load of a document that changed the record, with two listeners
C9_Witness ==
  /\ lastOp.op = "load"
  /\ file.exists
  /\ settings # pre
  /\ Len(listeners) = 2
  /\ listeners[1].type \in changed

(***************************************************************************)
(* C10.  serialize without the sensible fields prints neither              *)
(* mqttPassword nor configPassword, and prints the same text for a record  *)
(* that differs in those two fields only; with them it prints both; an     *)
(* opened save() always writes both.                                       *)
(***************************************************************************)
HoldsPasswords(text) ==
  /\ ParseObject(text).success
  /\ \A k \in {"mqttPassword", "configPassword"} :
        /\ ContainsKey(ParseObject(text).obj, k)
        /\ Member(ParseObject(text).obj, k) = JStr(settings[k])

C10_SensibleFields ==
  /\ (lastOp.op = "serialize" /\ lastOp.flag2) => HoldsPasswords(out)
  /\ (lastOp.op = "serialize" /\ ~lastOp.flag2) =>
        /\ \A i \in 1..Len(out) : out[i].s \notin {"mqttPassword", "configPassword"}
        /\ out = serialize([settings EXCEPT !.mqttPassword = "other",
                                            !.configPassword = "another"],
                            lastOp.flag, FALSE)
  /\ (lastOp.op = "save" /\ lastOp.flag) => (file.exists /\ HoldsPasswords(file.content))

\* an export without the sensible fields of a record whose configPassword
\* a document has set
C10_Witness ==
  /\ lastOp.op = "serialize" /\ ~lastOp.flag2
  /\ settings.configPassword = "secret"
(***************************************************************************)
(* C11.  reset() only removes the persisted document, if there is one: it  *)
(* leaves every field of the record and the listener list as they were     *)
(* and invokes no listener.                                                *)
(***************************************************************************)
C11_ResetOnlyRemovesFile ==
  lastOp.op = "reset" =>
    /\ ~file.exists
    /\ file = NoFile
    /\ settings = pre
    /\ listeners = before.listeners
    /\ changed = {}
    /\ calls = <<>>

\* a reset that found a document, on a record that differs from the defaults
\* and from the document, with a listener registered
C11_Witness ==
  /\ lastOp.op = "reset"
  /\ before.file.exists
  /\ ~file.exists
  /\ settings # Defaults
  /\ before.file.content # serialize(settings, FALSE, TRUE)
  /\ listeners # <<>>

(***************************************************************************)
(* C12.  save() changes no field of the record and invokes no listener;    *)
(* when the file cannot be opened nothing is written: the persisted        *)
(* document stays what it was and the record is merely not persisted.      *)
(***************************************************************************)
C12_SaveIsBestEffort ==
  lastOp.op = "save" =>
    /\ settings = pre
    /\ listeners = before.listeners
    /\ changed = {}
    /\ calls = <<>>
    /\ ~lastOp.flag => file = before.file
    /\ lastOp.flag => file = [exists |-> TRUE, content |-> serialize(settings, FALSE, TRUE)]

\* a save that could not open the file, leaving an older document in place
\* that differs from the record
C12_Witness ==
  /\ lastOp.op = "save" /\ ~lastOp.flag
  /\ file.exists
  /\ ParseObject(file.content).success
  /\ file.content # serialize(settings, FALSE, TRUE)
  /\ listeners # <<>>

\* the categories of the fields the last call changed
MutatedCategories == {FieldCategory(k) : k \in Mutated}

(***************************************************************************)
(* C13.  Notification ordering: every callback a deserialize(doc, true)    *)
(* invokes is handed the record as it is when the call returns, with the   *)
(* fields of all categories assigned.                                      *)
(***************************************************************************)
C13_NotifyAfterAllAssignments ==
  (Deserialized /\ lastOp.flag) =>
    \A i \in 1..Len(calls) : calls[i].seen = settings

\* a document that changes mqttBroker and rfReceiverPin, with a listener for
\* MQTT and one for RF_CONFIG: both are called, the MQTT one first
C13_Witness ==
  /\ Deserialized /\ lastOp.flag /\ lastOp.arg = ""
  /\ Mutated = {"mqttBroker", "rfReceiverPin"}
  /\ Len(calls) = 2
  /\ calls[1].type = "MQTT" /\ calls[2].type = "RF_CONFIG"
  /\ calls[1].seen.rfReceiverPin # pre.rfReceiverPin

(***************************************************************************)
(* C14.  Suppressed notification: deserialize(doc, false) assigns the      *)
(* fields exactly as deserialize(doc, true) does and invokes no listener;  *)
(* the categories it changed are forgotten: a deserialize(doc, true)       *)
(* right after it invokes listeners of the categories it changed itself    *)
(* only.                                                                   *)
(***************************************************************************)
C14_SuppressedIsForgotten ==
  /\ (Deserialized /\ ~lastOp.flag) =>
        /\ calls = <<>>
        /\ settings = deserialize(pre, listeners, lastOp.json, TRUE).s
        /\ changed = MutatedCategories
  /\ (Deserialized /\ lastOp.flag) =>
        \A i \in 1..Len(listeners) :
          (listeners[i].type \in before.suppressed \ MutatedCategories)
            => CallsTo(listeners[i].id) = {}

\* a call with callbacks that changed rfReceiverPin, right after a call
\* without callbacks that changed mqttBroker: the listener for RF_CONFIG is
\* called, the one for MQTT is not
C14_Witness ==
  /\ Deserialized /\ lastOp.flag /\ lastOp.arg = ""
  /\ before.suppressed = {"MQTT"}
  /\ Mutated = {"rfReceiverPin"}
  /\ \E i, j \in 1..Len(listeners) :
        /\ listeners[i].type = "MQTT" /\ CallsTo(listeners[i].id) = {}
        /\ listeners[j].type = "RF_CONFIG" /\ CallsTo(listeners[j].id) # {}

(***************************************************************************)
(* C16.  Listener dispatch order: registerChangeHandler puts the new       *)
(* entry in front of the list, and one notification invokes the matching   *)
(* listeners in reverse order of registration, the one registered last     *)
(* first.                                                                  *)
(***************************************************************************)
C16_ReverseRegistrationOrder ==
  /\ lastOp.op = "registerChangeHandler" =>
        /\ Tail(listeners) = before.listeners
        /\ Head(listeners) = [type |-> lastOp.arg, id |-> Len(listeners)]
  /\ \A i, j \in 1..Len(calls) : i < j => calls[i].id > calls[j].id

\* two listeners of one category, both called by a deserialize: the second
\* registered is called first
C16_Witness ==
  /\ Deserialized /\ lastOp.flag
  /\ Len(listeners) = 2
  /\ listeners[1].type = listeners[2].type
  /\ Len(calls) = 2
  /\ calls[1].id = 2 /\ calls[2].id = 1

(***************************************************************************)
(* C15.  Frame of deserialize: for a document that parses, every field     *)
(* whose key the document does not hold keeps its value, and a category    *)
(* none of whose keys the document holds is not marked changed.            *)
(***************************************************************************)
C15_AbsentKeysUntouched ==
  Parsed =>
    /\ \A k \in DOMAIN settings : ~Present(k) => settings[k] = pre[k]
    /\ \A cat \in Categories :
          (\A k \in DOMAIN settings : FieldCategory(k) = cat => ~Present(k))
            => cat \notin changed

\* a document with one key of a category, which it changes, while the other
\* key of the run holds a value an earlier document gave it
C15_Witness ==
  /\ Parsed
  /\ Len(Doc) = 1
  /\ \E k \in universe, g \in universe :
        /\ ~Present(k) /\ pre[k] # Defaults[k] /\ settings[k] = pre[k]
        /\ Present(g) /\ g \in Mutated
        /\ changed = {FieldCategory(g)}

(***************************************************************************)
(* C17.  rfProtocols: when the document holds the key, RF_PROTOCOL is      *)
(* marked changed exactly if the value printed as text differs from the    *)
(* stored text, and the stored text is then that text, whatever the shape  *)
(* of the value; when the document does not hold the key the stored text   *)
(* stays and RF_PROTOCOL is not marked.                                    *)
(***************************************************************************)
C17_ProtocolsComparedAsText ==
  Parsed =>
    IF Present("rfProtocols")
      THEN LET buff == PrintValue(Member(Doc, "rfProtocols"))
           IN /\ ("RF_PROTOCOL" \in changed) <=> (buff # pre.rfProtocols)
              /\ settings.rfProtocols = buff
      ELSE /\ settings.rfProtocols = pre.rfProtocols
           /\ "RF_PROTOCOL" \notin changed

\* "rfProtocols":"all", a value that is no array, replacing a stored array
C17_Witness ==
  /\ Parsed
  /\ Present("rfProtocols")
  /\ Member(Doc, "rfProtocols") = JStr("all")
  /\ pre.rfProtocols = PrintValue(JArr(<<JStr("arctech_switch")>>))
  /\ settings.rfProtocols = <<StrTok("all")>>
  /\ "RF_PROTOCOL" \in changed

(***************************************************************************)
(* C18.  updateOtaUrl assigns otaUrl and nothing else, marks no category   *)
(* and invokes no listener; a deserialize(doc, true) right after it whose  *)
(* otaUrl is the value just assigned invokes no listener of OTA.           *)
(***************************************************************************)
C18_UpdateOtaUrlIsSilent ==
  /\ lastOp.op = "updateOtaUrl" =>
        /\ settings = [pre EXCEPT !.otaUrl = lastOp.arg]
        /\ listeners = before.listeners
        /\ changed = {}
        /\ calls = <<>>
  /\ (Deserialized /\ lastOp.flag /\ sequel = "updated" /\ Parsed
        /\ Present("otaUrl") /\ TypedValue("otaUrl") = pre.otaUrl) =>
        /\ "OTA" \notin changed
        /\ \A i \in 1..Len(calls) : calls[i].type # "OTA"

\* an OTA listener waits; updateOtaUrl has replaced the compiled-in otaUrl,
\* and the document that follows holds that very value: no callback
C18_Witness ==
  /\ Deserialized /\ lastOp.flag /\ sequel = "updated" /\ Parsed
  /\ Present("otaUrl")
  /\ TypedValue("otaUrl") = pre.otaUrl
  /\ pre.otaUrl # Defaults.otaUrl
  /\ \E i \in 1..Len(listeners) : listeners[i].type = "OTA"
  /\ calls = <<>>

\* the last call was a deserialize whose callbacks call deserialize again
Reentered == Deserialized /\ lastOp.arg = "reentrant"

\* the deserialize calls and the callbacks of the trace at a depth
EnteredAt(depth) ==
  SelectSeq(reentry.trace, LAMBDA e : e.depth = depth /\ e.id = 0)

CallbacksAt(depth) ==
  SelectSeq(reentry.trace, LAMBDA e : e.depth = depth /\ e.id # 0)

(***************************************************************************)
(* C19.  A deserialize(doc, true) whose callbacks call deserialize(doc,    *)
(* true) again terminates: each nested call finds every field assigned,    *)
(* marks no category and invokes no callback, so the nesting is never      *)
(* deeper than 2, and the outer notification goes on to invoke every       *)
(* matching listener.                                                      *)
(***************************************************************************)
C19_ReentryTerminates ==
  Reentered =>
    /\ ~reentry.overflow
    /\ \A i \in 1..Len(reentry.trace) : reentry.trace[i].depth <= 2
    /\ CallbacksAt(2) = <<>>
    /\ \A i \in 1..Len(EnteredAt(2)) :
          /\ EnteredAt(2)[i].changed = {}
          /\ EnteredAt(2)[i].seen = settings
    /\ Len(EnteredAt(2)) = Len(calls)
    /\ [i \in 1..Len(calls) |-> calls[i].id] =
         [i \in 1..Len(onConfigChange(changed, listeners, settings)) |->
            onConfigChange(changed, listeners, settings)[i].id]
    /\ settings = deserialize(pre, listeners, lastOp.json, FALSE).s

\* a document that changes two categories, with a listener for each: both
\* callbacks run and each enters deserialize once more
C19_Witness ==
  /\ Reentered
  /\ Cardinality(changed) = 2
  /\ Len(calls) = 2
  /\ Len(EnteredAt(2)) = 2
  /\ Len(reentry.trace) = 5

RECURSIVE Commanded(_, _, _)
\* the state the calls of a log command, from the i-th on, starting in state st
Commanded(log, i, st) ==
  IF i > Len(log) THEN st
  ELSE Commanded(log, i + 1,
                 IF log[i] \in {"on", "setState(true)"} THEN TRUE
                 ELSE IF log[i] \in {"off", "setState(false)"} THEN FALSE
                 ELSE ~st)

\* getState() reports the state the calls so far command; after toggle() it
\* is the opposite of what it was before
ReportsCommanded ==
  /\ getState(Device(led)) = Commanded(led.log, 1, led.initial)
  /\ (led.log # <<>> /\ led.log[Len(led.log)] = "toggle") =>
        getState(Device(led)) = ~led.got

\* LED: the pin is an output, HIGH exactly when the state equals activeHigh
PinOfLED ==
  led.class = "LED" =>
    /\ led.mode = "OUTPUT"
    /\ (led.level = "HIGH") <=> (getState(Device(led)) = led.activeHigh)

\* LEDOpenDrain: an output driven LOW when on, an input with pull-up when off
PinOfLEDOpenDrain ==
  led.class = "LEDOpenDrain" =>
    IF getState(Device(led))
      THEN led.mode = "OUTPUT" /\ led.level = "LOW"
      ELSE led.mode = "INPUT_PULLUP"

(***************************************************************************)
(* C20.  For an LED of either polarity and for an LEDOpenDrain, after any  *)
(* sequence of on, off, setState and toggle calls, the empty one           *)
(* included, getState() reports the state last commanded (toggle inverts   *)
(* it), the pin of an LED is HIGH exactly when the state equals            *)
(* activeHigh, and the pin of an LEDOpenDrain is an output driven LOW      *)
(* when the LED is on and an input with pull-up when it is off.            *)
(***************************************************************************)
C20_LedReportsCommand ==
  led.class # "none" =>
    /\ ReportsCommanded
    /\ PinOfLED
    /\ PinOfLEDOpenDrain

\* the same once the first call has been made: it holds
LedAfterFirstCall ==
  (led.class # "none" /\ led.log # <<>>) =>
    /\ ReportsCommanded
    /\ PinOfLED
    /\ PinOfLEDOpenDrain

\* two toggles in a row on an LEDOpenDrain that was on
LedAfterFirstCallReached ==
  /\ led.class = "LEDOpenDrain"
  /\ led.log = <<"on", "toggle", "toggle">>
  /\ getState(Device(led))
====
